---- MODULE Spec2Model ----
(***************************************************************************)
(* cargo-acap: the build-and-package pipeline.                             *)
(*                                                                         *)
(* One behaviour is one `cargo acap build` invocation: the manifest is     *)
(* resolved from the cargo package, the output directory is created, and   *)
(* for each target the steps compile, stage, strip and package run.        *)
(* Subprocess outcomes, I/O outcomes, the wall clock and the presence of   *)
(* src/cgi.txt are chosen by the environment.                              *)
(*                                                                         *)
(* Spec is the build run, SpecConf the manifest builder over every raw     *)
(* configuration and version, SpecFn the functions that are applied on     *)
(* their own (serializer, target lookup, catalog of systems-on-chip), and  *)
(* SpecThreads the output directory accessed by several threads.           *)
(***************************************************************************)
EXTENDS Integers, Sequences, FiniteSets, TLC

VARIABLES
    package,          \* Invocation.cargo_package: name, version, [package.metadata.acap]
    verbose,          \* GlobalOptions.verbose
    show_version,     \* Build.show_version
    req_targets,      \* Build.targets, the targets named on the command line
    pc,               \* position of the single thread of control
    targets,          \* the local `targets` of Build::invoke
    idx,              \* index of the current target of the `for target in targets` loop
    package_dot_conf, \* the local `package_dot_conf` of Build::invoke (Option)
    acap_target,      \* Invocation.acap_target: Mutex<Option<PathBuf>>
    dirs,             \* directories that exist on disk
    files,            \* regular files on disk below target/acap: path -> file
    cgi,              \* state of <package root>/src/cgi.txt on disk
    cgi_changed,      \* whether the environment has changed src/cgi.txt during the run
    clock,            \* wall clock, in seconds since the start of the run
    log,              \* history: every step started so far, with its outcome
    exit_code,        \* process exit status, NoExit while the process runs
    input,            \* the argument of a function that is applied on its own (Option)
    output,           \* the result of that function (Option)
    callers,          \* threads calling Invocation::acap_target: position, paths returned
    mutex,            \* the Mutex of Invocation.acap_target: its holder, whether poisoned
    create_dir_results \* history: the result of every std::fs::create_dir of target/acap

\* the variables of threads that call Invocation::acap_target
threads == <<callers, mutex, create_dir_results>>

\* the variables that a build run leaves alone
aux == <<input, output, threads>>

vars == <<package, verbose, show_version, req_targets, pc, targets, idx,
          package_dot_conf, acap_target, dirs, files, cgi, cgi_changed, clock,
          log, exit_code, aux>>

----------------------------------------------------------------------------
(* Bounds of the model. *)

\* at most this many target names on the command line
MaxTargets == 2
\* verbosity levels 0..MaxVerbose (-v given that many times)
MaxVerbose == 2

----------------------------------------------------------------------------
(* Option<T>: None is the empty sequence, Some(v) the sequence <<v>>. *)

None == <<>>
Some(v) == <<v>>
is_some(o) == o # <<>>
unwrap_or(o, d) == IF o = <<>> THEN d ELSE o[1]

----------------------------------------------------------------------------
(* target.rs: the target catalog. *)

Target == {"Aarch64", "Armv5tej", "Armv6", "Armv7", "Armv7Hf", "Mips"}

Target_all == <<"Aarch64", "Armv5tej", "Armv6", "Armv7", "Armv7Hf", "Mips">>

Target_name(t) ==
    CASE t = "Aarch64"  -> "aarch64"
      [] t = "Armv5tej" -> "armv5tej"
      [] t = "Armv6"    -> "armv6"
      [] t = "Armv7"    -> "armv7"
      [] t = "Armv7Hf"  -> "armv7hf"
      [] t = "Mips"     -> "mips"

rust_target_triple(t) ==
    CASE t = "Aarch64"  -> "aarch64-axis-linux-gnu"
      [] t = "Armv5tej" -> "armv5te-axis-linux-gnueabi"
      [] t = "Armv6"    -> "arm-axis-linux-gnueabi"
      [] t = "Armv7"    -> "armv7-axis-linux-gnueabi"
      [] t = "Armv7Hf"  -> "armv7-axis-linux-gnueabihf"
      [] t = "Mips"     -> "mipsel-axis-linux-gnu"

docker_objcopy_command(t) ==
    CASE t = "Aarch64"  -> "aarch64-linux-gnu-objcopy"
      [] t = "Armv5tej" -> "arm-linux-gnueabi-objcopy"
      [] t = "Armv6"    -> "arm-linux-gnueabi-objcopy"
      [] t = "Armv7"    -> "arm-linux-gnueabihf-objcopy"
      [] t = "Armv7Hf"  -> "arm-linux-gnueabihf-objcopy"
      [] t = "Mips"     -> "mipsisa32r2el-axis-linux-gnu-objcopy"

\* Result<Target, NoSuchTargetError> (target.rs 136, 159-160)
Ok(v) == [ok |-> TRUE, value |-> v]
Err(e) == [ok |-> FALSE, err |-> e]

\* the wrong lookup: by name only
from_str_name_only(s) ==
    LET found == SelectSeq(Target_all, LAMBDA arch : Target_name(arch) = s)
    IN IF found = <<>> THEN Err([NoSuchTargetError |-> s]) ELSE Ok(found[1])

\* target.rs 135-145, FromStr for Target: the first target of all() whose name
\* or triple is the string
from_str(s) ==
    LET found == SelectSeq(Target_all,
                           LAMBDA arch : Target_name(arch) = s
                                            \/ rust_target_triple(arch) = s)
    IN IF found = <<>> THEN Err([NoSuchTargetError |-> s]) ELSE Ok(found[1])

----------------------------------------------------------------------------
(* target.rs 172-288: the catalog of systems-on-chip. *)

SOC ==
    {"Artpec1", "Artpec2", "Artpec3", "Artpec4", "Artpec5", "Artpec6", "Artpec7",
     "A5S", "Hi3516cV300", "Hi3719cV100", "MX8QP", "S2", "S2E", "S2L", "S3L", "S5",
     "S5L"}

SOC_all ==
    <<"Artpec1", "Artpec2", "Artpec3", "Artpec4", "Artpec5", "Artpec6", "Artpec7",
      "A5S", "Hi3516cV300", "Hi3719cV100", "MX8QP", "S2", "S2E", "S2L", "S3L", "S5",
      "S5L">>

SOC_display_name(soc) ==
    CASE soc = "Artpec1" -> "Axis ARTPEC-1"
      [] soc = "Artpec2" -> "Axis ARTPEC-2"
      [] soc = "Artpec3" -> "Axis ARTPEC-3"
      [] soc = "Artpec4" -> "Axis ARTPEC-4"
      [] soc = "Artpec5" -> "Axis ARTPEC-5"
      [] soc = "Artpec6" -> "Axis ARTPEC-6"
      [] soc = "Artpec7" -> "Axis ARTPEC-7"
      [] soc = "A5S" -> "Ambarella A5S"
      [] soc = "Hi3516cV300" -> "Hi3516C V300"
      [] soc = "Hi3719cV100" -> "Hi3719C V100"
      [] soc = "MX8QP" -> "NXP i.MX 8 QP"
      [] soc = "S2" -> "Ambarella S2"
      [] soc = "S2E" -> "Ambarella S2E"
      [] soc = "S2L" -> "Ambarella S2L"
      [] soc = "S3L" -> "Ambarella S3L"
      [] soc = "S5" -> "Ambarella S5"
      [] soc = "S5L" -> "Ambarella S5L"

SOC_year(soc) ==
    CASE soc = "Artpec1" -> 1999
      [] soc = "Artpec2" -> 2003
      [] soc = "Artpec3" -> 2007
      [] soc = "Artpec4" -> 2011
      [] soc = "Artpec5" -> 2013
      [] soc = "Artpec6" -> 2017
      [] soc = "Artpec7" -> 2019
      [] soc = "A5S" -> 2010
      [] soc = "Hi3516cV300" -> 2016
      [] soc = "Hi3719cV100" -> 2016
      [] soc = "MX8QP" -> 2013
      [] soc \in {"S2", "S2E", "S2L"} -> 2012
      [] soc = "S3L" -> 2014
      [] soc \in {"S5", "S5L"} -> 2016

\* target.rs 271-287: Result<Target, &'static str>
architecture(soc) ==
    CASE soc \in {"Artpec1", "Artpec2", "Artpec3"} ->
            Err("ARTPEC 1, 2 and 3 use CrisV32, which is not supported")
      [] soc \in {"Artpec4", "Artpec5"} -> Ok("Mips")
      [] soc \in {"Artpec6", "Artpec7"} -> Ok("Armv7Hf")
      [] soc = "A5S" -> Ok("Armv6")
      [] soc = "Hi3516cV300" -> Ok("Armv5tej")
      [] soc = "Hi3719cV100" -> Ok("Armv7Hf")
      [] soc = "MX8QP" -> Ok("Aarch64")
      [] soc = "S2" -> Ok("Armv7")
      [] soc \in {"S2E", "S2L"} -> Ok("Armv7Hf")
      [] soc = "S3L" -> Ok("Armv7Hf")
      [] soc \in {"S5", "S5L"} -> Ok("Aarch64")

\* the seventeen display names in the order of str::cmp (byte order)
display_names_in_order ==
    <<"Ambarella A5S", "Ambarella S2", "Ambarella S2E", "Ambarella S2L",
      "Ambarella S3L", "Ambarella S5", "Ambarella S5L", "Axis ARTPEC-1",
      "Axis ARTPEC-2", "Axis ARTPEC-3", "Axis ARTPEC-4", "Axis ARTPEC-5",
      "Axis ARTPEC-6", "Axis ARTPEC-7", "Hi3516C V300", "Hi3719C V100",
      "NXP i.MX 8 QP">>

\* a < b for two display names
str_lt(a, b) ==
    \E i, j \in DOMAIN display_names_in_order :
        /\ display_names_in_order[i] = a
        /\ display_names_in_order[j] = b
        /\ i < j

\* targets.rs 48: the key (year, display_name) of a is less than that of b
key_lt(a, b) ==
    \/ SOC_year(a) < SOC_year(b)
    \/ SOC_year(a) = SOC_year(b)
          /\ str_lt(SOC_display_name(a), SOC_display_name(b))

\* targets.rs 48, sort_by_key: a stable sort, here by taking the first least
\* element again and again
RECURSIVE sort_by_key(_)
sort_by_key(socs) ==
    IF socs = <<>> THEN <<>>
    ELSE LET least == {i \in DOMAIN socs : \A j \in DOMAIN socs : ~key_lt(socs[j], socs[i])}
             m == CHOOSE i \in least : \A j \in least : i <= j
         IN <<socs[m]>>
               \o sort_by_key(SubSeq(socs, 1, m - 1) \o SubSeq(socs, m + 1, Len(socs)))

----------------------------------------------------------------------------
(* package_dot_conf.rs / cargo_config.rs: the package descriptor builder. *)

LicensePage == {"Axis", "Custom", "None"}
StartMode == {"Respawn", "Once", "Never"}

\* CargoAcapMetadata::default(): every field None
CargoAcapMetadata_default ==
    [app_name |-> None, display_name |-> None, menu_name |-> None,
     vendor |-> None, vendor_homepage_url |-> None, launch_arguments |-> None,
     license_check_arguments |-> None, axis_application_id |-> None,
     start_mode |-> None, targets |-> None]

\* the wrong precedence: license_check_arguments looked at first
license_page_custom_first(axis_application_id, license_check_arguments) ==
    IF is_some(license_check_arguments) THEN "Custom"
    ELSE IF is_some(axis_application_id) THEN "Axis"
    ELSE "None"

\* package_dot_conf.rs 150-156
license_page_of(axis_application_id, license_check_arguments) ==
    IF is_some(axis_application_id) THEN "Axis"
    ELSE IF is_some(license_check_arguments) THEN "Custom"
    ELSE "None"

\* the wrong default: vendor derived from the package name
vendor_from_package_name(vendor, display_name, package_name) ==
    unwrap_or(vendor, package_name \o " authors")

\* package_dot_conf.rs 148
vendor_of(vendor, display_name, package_name) ==
    unwrap_or(vendor, display_name \o " authors")

\* package_dot_conf.rs 159-160
vendor_homepage_link_of(vendor_homepage_url, vendor) ==
    IF is_some(vendor_homepage_url)
    THEN Some("<a href=\"" \o vendor_homepage_url[1] \o "\">" \o vendor \o "</a>")
    ELSE None

\* i32::MAX: app_major_version and app_minor_version are i32 fields
\* (package_dot_conf.rs 29, 33)
i32_MAX == 2147483647

\* semver::Version.major, minor, patch are u64. A u64 is held as two digits in
\* base 2^31, value hi * 2^31 + lo with lo < 2^31; the versions of the model stay
\* below 2^32, so hi is 0 or 1
u64(n) == [hi |-> 0, lo |-> n]

\* the u64 2^31, which is i32::MAX + 1
two_pow_31 == [hi |-> 1, lo |-> 0]

\* decimal text of a number in 0..i32::MAX
RECURSIVE nat_to_string(_)
nat_to_string(n) ==
    LET digit(d) == CASE d = 0 -> "0" [] d = 1 -> "1" [] d = 2 -> "2"
                      [] d = 3 -> "3" [] d = 4 -> "4" [] d = 5 -> "5"
                      [] d = 6 -> "6" [] d = 7 -> "7" [] d = 8 -> "8"
                      [] d = 9 -> "9"
    IN IF n < 10 THEN digit(n) ELSE nat_to_string(n \div 10) \o digit(n % 10)

\* u64::to_string: decimal text, by long division of the two digits by ten
\* (2^31 = (i32::MAX div 10) * 10 + (i32::MAX mod 10) + 1)
u64_to_string(n) ==
    IF n.hi = 0 THEN nat_to_string(n.lo)
    ELSE LET units == n.hi * ((i32_MAX % 10) + 1) + (n.lo % 10)
             tens == n.hi * (i32_MAX \div 10) + (n.lo \div 10) + (units \div 10)
         IN nat_to_string(tens) \o nat_to_string(units % 10)

\* i32::to_string
i32_to_string(n) ==
    IF n >= 0 THEN nat_to_string(n)
    ELSE LET below == -(n + 1)
         IN "-" \o u64_to_string(IF below = i32_MAX THEN two_pow_31 ELSE u64(below + 1))

\* the wrong conversion: `as i32`, which keeps the low 32 bits
as_i32(n) == Some(IF n.hi % 2 = 1 THEN (n.lo - i32_MAX) - 1 ELSE n.lo)

\* package_dot_conf.rs 165-172: u64 to i32 by try_into(), None when out of range
try_into_i32(n) == IF n.hi = 0 /\ n.lo <= i32_MAX THEN Some(n.lo) ELSE None

\* package_dot_conf.rs 168, 172: unwrap_or_else(|_| panic!(..)) on either number
PackageDotConf_panics(p) ==
    \/ try_into_i32(p.version.major) = None
    \/ try_into_i32(p.version.minor) = None

\* package_dot_conf.rs 174-185
RECURSIVE append_each(_, _, _)
append_each(s, sep, ids) ==
    IF ids = <<>> THEN s ELSE append_each(s \o sep \o Head(ids), sep, Tail(ids))

app_micro_version_of(version) ==
    Some(append_each(append_each(u64_to_string(version.patch), "-", version.pre),
                     "+", version.build))

\* package_dot_conf.rs 119-211: From<cargo::core::Package> for PackageDotConf
PackageDotConf_from(p) ==
    LET m == unwrap_or(p.metadata, CargoAcapMetadata_default)
        app_name == unwrap_or(m.app_name, p.name)
        display_name == unwrap_or(m.display_name, p.name)
        menu_name == unwrap_or(m.menu_name, display_name)
        vendor == vendor_of(m.vendor, display_name, p.name)
    IN [app_name |-> app_name,
        display_name |-> display_name,
        menu_name |-> menu_name,
        axis_application_id |-> unwrap_or(m.axis_application_id, ""),
        vendor |-> vendor,
        launch_arguments |-> m.launch_arguments,
        app_major_version |-> try_into_i32(p.version.major)[1],
        app_minor_version |-> try_into_i32(p.version.minor)[1],
        app_micro_version |-> app_micro_version_of(p.version),
        other_files |-> <<>>,
        license_page |-> license_page_of(m.axis_application_id,
                                         m.license_check_arguments),
        license_check_arguments |-> m.license_check_arguments,
        settings_page_file |-> None,
        settings_page_text |-> None,
        vendor_homepage_link |-> vendor_homepage_link_of(m.vendor_homepage_url, vendor),
        http_cgi_paths |-> None,
        post_install_script |-> None,
        required_embedded_development_version |-> "2.0",
        unix_user |-> "sdk",
        unix_group |-> "sdk",
        start_mode |-> unwrap_or(m.start_mode, "Respawn")]

----------------------------------------------------------------------------
(* shell_includes::to_string, the manifest serializer (package_dot_conf.rs 213-217). *)

\* one KEY="value" line
shell_line(key, value) == key \o "=\"" \o value \o "\"\n"

\* SerializeStruct::serialize_field of a value that is written: one line
serialize_field(key, value) == <<[key |-> key, value |-> value]>>

\* an Option field without skip_serializing_if (APPOPTS, APPMICROVERSION): Some is
\* written as its value, None writes nothing at all
shell_line_opt(key, o) == IF is_some(o) THEN serialize_field(key, o[1]) ELSE <<>>

\* the wrong attribute: a None field written as a key with an empty value
skip_serializing_never(key, o) == serialize_field(key, unwrap_or(o, ""))

\* #[serde(skip_serializing_if = "Option::is_none")] (package_dot_conf.rs 52-83):
\* the derived Serialize does not pass a None field to the serializer
skip_serializing_if_none(key, o) ==
    IF o = None THEN <<>> ELSE serialize_field(key, o[1])

\* #[serde(rename_all = "snake_case")] on LicensePage and StartMode
snake_case(variant) ==
    CASE variant = "Axis" -> "axis" [] variant = "Custom" -> "custom"
      [] variant = "None" -> "none" [] variant = "Respawn" -> "respawn"
      [] variant = "Once" -> "once" [] variant = "Never" -> "never"

\* a file name is held as its characters, so that str::contains(" ") can look
\* into it; this is the String of those characters
RECURSIVE chars_to_string(_)
chars_to_string(cs) == IF cs = <<>> THEN "" ELSE cs[1] \o chars_to_string(Tail(cs))

\* package_dot_conf.rs 223: f.contains(" ")
contains_space(name) == \E i \in DOMAIN name : name[i] = " "

\* package_dot_conf.rs 230: other_files.join(" ")
RECURSIVE join_space(_)
join_space(names) ==
    IF names = <<>> THEN ""
    ELSE IF Len(names) = 1 THEN chars_to_string(names[1])
    ELSE chars_to_string(names[1]) \o " " \o join_space(Tail(names))

\* the wrong serializer: the names are joined whatever they contain
serialize_other_files_unchecked(other_files) == Some(join_space(other_files))

\* package_dot_conf.rs 219-231: None stands for the panic
serialize_other_files(other_files) ==
    IF \E i \in DOMAIN other_files : contains_space(other_files[i]) THEN None
    ELSE Some(join_space(other_files))

\* whether serializing the manifest panics
to_string_panics(conf) == serialize_other_files(conf.other_files) = None

\* the lines of the manifest, in the order of the fields of PackageDotConf
\* (package_dot_conf.rs 7-101)
to_lines(conf) ==
    serialize_field("APPNAME", conf.app_name)
    \o serialize_field("PACKAGENAME", conf.display_name)
    \o serialize_field("MENUNAME", conf.menu_name)
    \o serialize_field("APPID", conf.axis_application_id)
    \o serialize_field("VENDOR", conf.vendor)
    \o shell_line_opt("APPOPTS", conf.launch_arguments)
    \o serialize_field("APPMAJORVERSION", i32_to_string(conf.app_major_version))
    \o serialize_field("APPMINORVERSION", i32_to_string(conf.app_minor_version))
    \o shell_line_opt("APPMICROVERSION", conf.app_micro_version)
    \o serialize_field("OTHERFILES", serialize_other_files(conf.other_files)[1])
    \o serialize_field("LICENSEPAGE", snake_case(conf.license_page))
    \o skip_serializing_if_none("LICENSE_CHECK_ARGS", conf.license_check_arguments)
    \o skip_serializing_if_none("SETTINGSPAGEFILE", conf.settings_page_file)
    \o skip_serializing_if_none("SETTINGSPAGETEXT", conf.settings_page_text)
    \o skip_serializing_if_none("VENDORHOMEPAGELINK", conf.vendor_homepage_link)
    \o skip_serializing_if_none("HTTPCGIPATHS", conf.http_cgi_paths)
    \o skip_serializing_if_none("POSTINSTALLSCRIPT", conf.post_install_script)
    \o serialize_field("REQEMBDEVVERSION", conf.required_embedded_development_version)
    \o serialize_field("APPUSR", conf.unix_user)
    \o serialize_field("APPGRP", conf.unix_group)
    \o serialize_field("STARTMODE", snake_case(conf.start_mode))

\* the text of the lines
RECURSIVE render(_)
render(lines) ==
    IF lines = <<>> THEN ""
    ELSE shell_line(lines[1].key, lines[1].value) \o render(Tail(lines))

\* package_dot_conf.rs 213-217
to_string(conf) == render(to_lines(conf))

----------------------------------------------------------------------------
(* Paths and files. *)

\* semver::Version::to_string, used by Invocation::package_version (mod.rs 247-249)
RECURSIVE join_dot(_)
join_dot(ids) ==
    IF Len(ids) = 1 THEN ids[1] ELSE ids[1] \o "." \o join_dot(Tail(ids))

package_version(p) ==
    u64_to_string(p.version.major) \o "." \o u64_to_string(p.version.minor) \o "."
        \o u64_to_string(p.version.patch)
        \o (IF p.version.pre = <<>> THEN "" ELSE "-" \o join_dot(p.version.pre))
        \o (IF p.version.build = <<>> THEN "" ELSE "+" \o join_dot(p.version.build))

\* Path::join
join(dir, name) == dir \o "/" \o name

\* Invocation.workspace_target (mod.rs 95-100)
workspace_target == "target"

\* mod.rs 152
acap_target_path == join(workspace_target, "acap")

\* build.rs 108-111: where cargo leaves the compiled binary
built_executable_path(t) ==
    join(join(join(acap_target_path, rust_target_triple(t)), "release"), package.name)

\* build.rs 141: Path::with_extension("stripped")
stripped_executable_path(t) == built_executable_path(t) \o ".stripped"

\* an artifact named after the application and its version only
artifact_path_without_target(conf, t, suffix) ==
    join(acap_target_path,
         conf.app_name \o "_" \o package_version(package) \o suffix)

\* build.rs 114-122
artifact_path(conf, t, suffix) ==
    join(acap_target_path,
         conf.app_name \o "_" \o package_version(package) \o "_"
            \o Target_name(t) \o suffix)

Exists(p) == p \in DOMAIN files

\* the file system after writing file f at path p
Put(fs, p, f) == [q \in (DOMAIN fs) \cup {p} |-> IF q = p THEN f ELSE fs[q]]

\* whoami.rs 8-14, 66-81: the ids of the invoking user, which docker runs as
\* (mod.rs 179-180); on unix they are the effective ids of the process
whoami == [uid |-> 1000, gid |-> 1000]

\* a binary written inside docker as the invoking user. The program reads the
\* modification time of the stripped binary only (through append_file), so the
\* compiled binary and its .elf copy carry the time 0
BinaryFile(data, now) ==
    [kind |-> "binary", data |-> data, len |-> Len(data),
     uid |-> whoami.uid, gid |-> whoami.gid, mode |-> 493, mtime |-> now]

\* <package root>/src/cgi.txt (mod.rs 243-245, build.rs 172), a file of the project
CgiFile ==
    [kind |-> "text", data |-> "/local/demo/api.cgi", len |-> Len("/local/demo/api.cgi"),
     uid |-> whoami.uid, gid |-> whoami.gid, mode |-> 420, mtime |-> 0]

----------------------------------------------------------------------------
(* Archive entries (build.rs 162-238). *)

\* build.rs 222-238
tar_header(path, size, mtime) ==
    [path |-> path, mode |-> 420, uid |-> 0, gid |-> 0,
     mtime |-> unwrap_or(mtime, 0), size |-> size, entry_type |-> "Regular"]

\* tar::Builder::append_file (build.rs 175, 204): the header is filled from the
\* metadata of the open file, the content is the file's content
append_file(path, f) ==
    [header |-> [path |-> path, mode |-> f.mode, uid |-> f.uid, gid |-> f.gid,
                 mtime |-> f.mtime, size |-> f.len, entry_type |-> "Regular"],
     content |-> f.data,
     manifest |-> None]

\* build.rs 188-200: the entry of the serialized manifest; `manifest` remembers the
\* record the text was rendered from
append_package_conf(conf, now) ==
    [header |-> tar_header("package.conf", Len(to_string(conf)), Some(now)),
     content |-> to_string(conf),
     manifest |-> Some(conf)]

----------------------------------------------------------------------------
(* The inputs of a run. *)

\* the names that may be given with --target on the command line
CliTargets == {"Armv7Hf", "Mips"}

\* every list of at most n elements of S
RECURSIVE SeqsUpTo(_, _)
SeqsUpTo(S, n) ==
    IF n = 0 THEN {<<>>}
    ELSE LET shorter == SeqsUpTo(S, n - 1)
         IN shorter \cup {Append(q, x) : q \in shorter, x \in S}

\* the cargo package a run is started on: its [package.metadata.acap] table names
\* the application, so that the application name differs from the package name,
\* and may list the targets of a bare build (cargo_config.rs 40-41)
RunPackages ==
    {[name |-> "demo",
      version |-> [major |-> n[1], minor |-> n[2], patch |-> u64(3),
                   pre |-> <<>>, build |-> <<>>],
      metadata |-> Some([CargoAcapMetadata_default EXCEPT !.app_name = Some("cam"),
                                                          !.targets = ts])] :
        n \in {<<u64(1), u64(2)>>, <<two_pow_31, u64(2)>>, <<u64(1), two_pow_31>>},
        ts \in {None, Some(<<"Mips">>)}}

\* std::process::ExitStatus of a child: code() is None when a signal ended it
ExitStatus == {[code |-> Some(c)] : c \in 0..2} \cup {[code |-> None]}

CgiStates == {"absent", "present", "denied"}

\* the seconds the wall clock shows during a run, counted from its start
Clock == {0, 1}

\* the exit status of a process whose main thread panicked (expect, unwrap)
panic_exit_code == 101

Init ==
    /\ package \in RunPackages
    /\ verbose \in 0..MaxVerbose
    /\ show_version \in BOOLEAN
    /\ req_targets \in SeqsUpTo(CliTargets, MaxTargets)
    \* the package that lists targets is built by the bare invocation
    \* `cargo acap build`, the only one that could look at the list
    /\ package.metadata[1].targets # None =>
          req_targets = <<>> /\ verbose = 0 /\ ~show_version
    /\ pc = "start"
    /\ targets = <<>>
    /\ idx = 0
    /\ package_dot_conf = None
    /\ acap_target = None
    /\ dirs = {workspace_target}
    /\ files = [q \in {} |-> None]
    /\ cgi \in {"absent", "present"}
    /\ cgi_changed = FALSE
    /\ clock = 0
    /\ log = <<>>
    /\ exit_code = None
    /\ input = None
    /\ output = None
    /\ callers = <<>>
    /\ mutex = [holder |-> None, poisoned |-> FALSE]
    /\ create_dir_results = <<>>

----------------------------------------------------------------------------
(* Control flow shared by the steps. *)

Running == pc # "exited"

\* the target of the current BuildOp ("" before the loop)
CurrentTarget == IF idx \in 1..Len(targets) THEN targets[idx] ELSE ""

\* the version probes of build.rs 39-47 belong to no target
ProbeSteps == {"images", "rustc"}

LogEntry(step, st, code) ==
    IF step \in ProbeSteps
    THEN [i |-> 0, target |-> "", step |-> step, st |-> st, code |-> code]
    ELSE [i |-> idx, target |-> CurrentTarget, step |-> step, st |-> st, code |-> code]

LogStart(step) == Append(log, LogEntry(step, "running", None))

LogDone(step, st, code) == Append(log, LogEntry(step, st, code))

\* the last entry of the log, the running step, gets its outcome
LogFinish(st, code) ==
    [log EXCEPT ![Len(log)] = [@ EXCEPT !.st = st, !.code = code]]

\* std::process::exit(code), or the end of a panicking process
Exit(code) ==
    /\ pc' = "exited"
    /\ exit_code' = Some(code)

\* a pipeline that strips before it stages
next_step_strip_first(step) ==
    CASE step = "compile" -> "strip"
      [] step = "strip"   -> "stage"
      [] step = "stage"   -> "package"
      [] step = "package" -> "for_target"

\* build.rs 78-85, BuildOp::invoke: the step that follows a successful step
next_step(step) ==
    CASE step = "compile" -> "stage"
      [] step = "stage"   -> "strip"
      [] step = "strip"   -> "package"
      [] step = "package" -> "for_target"

\* an exit status that is always 1 after a failed child
exit_code_always_one(status) ==
    IF status.code = Some(0) THEN None ELSE Some(1)

\* mod.rs 228-240, run_to_completion: the status the process exits with after
\* the child ended, None when the run goes on
exit_code_after(status) ==
    IF status.code = Some(0) THEN None
    ELSE IF status.code = None THEN Some(panic_exit_code)
    ELSE status.code

\* a failed packaging that is reported and skipped
package_error_skipped(ok) == None

\* build.rs 83-84, .expect("error building package")
exit_code_after_package(ok) == IF ok THEN None ELSE Some(panic_exit_code)

----------------------------------------------------------------------------
(* Build::invoke (build.rs 21-62). *)

\* build.rs 22: the manifest is resolved, once
InvokePackageDotConf ==
    /\ pc = "start"
    /\ IF PackageDotConf_panics(package)
       THEN /\ Exit(panic_exit_code)
            /\ UNCHANGED package_dot_conf
       ELSE /\ package_dot_conf' = Some(PackageDotConf_from(package))
            /\ pc' = "acap_target"
            /\ UNCHANGED exit_code
    /\ UNCHANGED aux
    /\ UNCHANGED <<package, verbose, show_version, req_targets, targets, idx,
                   acap_target, dirs, files, cgi, cgi_changed, clock, log>>

\* the wrong choice: the names on the command line are not looked at
targets_always_all == Target_all

\* build.rs 28-32
targets_to_build == IF Len(req_targets) > 0 THEN req_targets ELSE Target_all

\* build.rs 39
probes_wanted == show_version \/ verbose > 0

\* build.rs 23-32 with mod.rs 145-165: the output directory is created and cached,
\* then the list of targets is fixed
InvokeAcapTarget ==
    /\ pc = "acap_target"
    /\ \E created \in {"created", "already_exists", "error"} :
          IF created = "error"
          THEN /\ Exit(panic_exit_code)
               /\ UNCHANGED <<acap_target, dirs, targets, idx>>
          ELSE /\ dirs' = dirs \cup {acap_target_path}
               /\ acap_target' = Some(acap_target_path)
               /\ targets' = targets_to_build
               /\ idx' = 1
               /\ pc' = IF probes_wanted THEN "images" ELSE "for_target"
               /\ UNCHANGED exit_code
    /\ UNCHANGED aux
    /\ UNCHANGED <<package, verbose, show_version, req_targets, package_dot_conf,
                   files, cgi, cgi_changed, clock, log>>

\* build.rs 49-61: the loop takes its next target
ForTarget ==
    /\ pc = "for_target"
    /\ idx <= Len(targets)
    /\ pc' = "compile"
    /\ UNCHANGED aux
    /\ UNCHANGED <<package, verbose, show_version, req_targets, targets, idx,
                   package_dot_conf, acap_target, dirs, files, cgi, cgi_changed,
                   clock, log, exit_code>>

\* mod.rs 129-134: Build::invoke returned, the process exits with 0
MainExit ==
    /\ pc = "for_target"
    /\ idx > Len(targets)
    /\ Exit(0)
    /\ UNCHANGED aux
    /\ UNCHANGED <<package, verbose, show_version, req_targets, targets, idx,
                   package_dot_conf, acap_target, dirs, files, cgi, cgi_changed,
                   clock, log>>

----------------------------------------------------------------------------
(* Invocation::run_to_completion (mod.rs 223-241) and its callers. *)

\* the steps that run a child process: build.rs 40-46, 87-106, 140-148
SpawnSteps == {"images", "rustc", "compile", "strip"}

\* the child is spawned; a spawn error panics ("error running command")
\* where the run goes on after the child of a step succeeded
step_after_child(step) ==
    CASE step = "images" -> "rustc"
      [] step = "rustc"  -> "for_target"
      [] OTHER -> next_step(step)

\* a child that is started and left alone: the run goes on with the next step
spawn_detached(step) == step_after_child(step)

\* mod.rs 228-232: spawn() is followed by wait(), the caller is blocked until
\* the child has exited
spawn_and_wait(step) == step \o "_wait"

Spawn ==
    /\ pc \in SpawnSteps
    /\ \E spawned \in BOOLEAN :
          IF spawned
          THEN /\ log' = LogStart(pc)
               /\ pc' = spawn_and_wait(pc)
               /\ UNCHANGED exit_code
          ELSE /\ log' = LogDone(pc, "failed", None)
               /\ Exit(panic_exit_code)
    /\ UNCHANGED aux
    /\ UNCHANGED <<package, verbose, show_version, req_targets, targets, idx,
                   package_dot_conf, acap_target, dirs, files, cgi, cgi_changed, clock>>

\* what a successful child leaves on disk: cargo build leaves the binary (when the
\* package has a binary named after it), objcopy the stripped copy
FilesAfterChild(step, produced) ==
    CASE step = "compile" /\ produced ->
            Put(files, built_executable_path(CurrentTarget),
                BinaryFile("elf+symbols:" \o rust_target_triple(CurrentTarget), 0))
      [] step = "strip" /\ Exists(built_executable_path(CurrentTarget)) ->
            Put(files, stripped_executable_path(CurrentTarget),
                BinaryFile("elf:" \o rust_target_triple(CurrentTarget), clock))
      [] OTHER -> files

\* the child is waited for; a failed child ends the process
Wait ==
    /\ pc \in {st \o "_wait" : st \in SpawnSteps}
    /\ LET step == log[Len(log)].step IN
       \E status \in ExitStatus, produced \in BOOLEAN :
          /\ (step # "compile" \/ status.code # Some(0)) => produced
          /\ (step = "strip" /\ status.code = Some(0))
                => Exists(built_executable_path(CurrentTarget))
          /\ log' = LogFinish(IF status.code = Some(0) THEN "ok" ELSE "failed", status.code)
          /\ files' = IF status.code = Some(0) THEN FilesAfterChild(step, produced)
                      ELSE files
          /\ IF exit_code_after(status) = None
             THEN /\ pc' = step_after_child(step)
                  /\ UNCHANGED exit_code
             ELSE Exit(exit_code_after(status)[1])
    /\ UNCHANGED aux
    /\ UNCHANGED <<package, verbose, show_version, req_targets, targets, idx,
                   package_dot_conf, acap_target, dirs, cgi, cgi_changed, clock>>

----------------------------------------------------------------------------
(* BuildOp::copy_executable_with_symbols (build.rs 124-138). *)

Stage ==
    /\ pc = "stage"
    /\ LET src == built_executable_path(CurrentTarget)
           elf == artifact_path(package_dot_conf[1], CurrentTarget, ".elf")
       IN IF Exists(src)
          THEN /\ files' = Put(files, elf, files[src])
               /\ log' = LogDone("stage", "ok", None)
               /\ pc' = next_step("stage")
               /\ UNCHANGED exit_code
          ELSE /\ log' = LogDone("stage", "failed", None)
               /\ Exit(panic_exit_code)
               /\ UNCHANGED files
    /\ UNCHANGED aux
    /\ UNCHANGED <<package, verbose, show_version, req_targets, targets, idx,
                   package_dot_conf, acap_target, dirs, cgi, cgi_changed, clock>>

----------------------------------------------------------------------------
(* BuildOp::package (build.rs 162-219). *)

\* the operations of package that can fail, in the order they run
PackageFailPoints ==
    {"create", "cgi_open", "cgi_append", "conf_append", "exe_open", "exe_append",
     "finish"}

\* the manifest entry written before the cgi.txt entry
package_entries_conf_first(cgi_entries, conf_entry, exe_entry) ==
    <<conf_entry>> \o cgi_entries \o <<exe_entry>>

\* build.rs 170-205: the entries of the archive, in the order they are appended
package_entries(cgi_entries, conf_entry, exe_entry) ==
    cgi_entries \o <<conf_entry>> \o <<exe_entry>>

\* the CGI path set in the manifest that all targets share
package_conf_shared(shared, private) == private

\* build.rs 168: package works on a clone, the manifest of the run stays as it was
package_conf_after(shared, private) == shared

\* build.rs 176: the clone, with the CGI path when cgi.txt was opened
private_package_conf(conf, cgi_opened) ==
    IF cgi_opened THEN [conf EXCEPT !.http_cgi_paths = Some("cgi.txt")] ELSE conf

\* build.rs 173: the result of File::open on src/cgi.txt
cgi_open_result(state) ==
    CASE state = "present" -> "ok"
      [] state = "absent"  -> "not_found"
      [] state = "denied"  -> "error"

\* the wrong handling: every error of the open is ignored
cgi_open_error_ignored(result) == FALSE

\* build.rs 178-184: NotFound is ignored, any other error is returned
cgi_open_fatal(result) == result \notin {"ok", "not_found"}

\* how many entries were appended before the operation `fail` failed
EntriesBefore(fail, cgi_opened) ==
    LET c == IF cgi_opened THEN 1 ELSE 0 IN
    CASE fail \in {"create", "cgi_open", "cgi_append"} -> 0
      [] fail = "conf_append" -> c
      [] fail \in {"exe_open", "exe_append"} -> c + 1
      [] OTHER -> c + 2

Package ==
    /\ pc = "package"
    /\ LET t == CurrentTarget
           conf == package_dot_conf[1]
           eap == artifact_path(conf, t, ".eap")
           stripped == stripped_executable_path(t)
           cgi_opened == cgi = "present"
           private == private_package_conf(conf, cgi_opened)
       IN
       \E fail \in PackageFailPoints \cup {"none"} :
          /\ cgi_open_fatal(cgi_open_result(cgi)) => fail \in {"create", "cgi_open"}
          /\ fail = "cgi_open" => cgi_open_fatal(cgi_open_result(cgi))
          /\ fail = "cgi_append" => cgi = "present"
          /\ ~Exists(stripped)
                => fail \in {"create", "cgi_open", "cgi_append", "conf_append", "exe_open"}
          /\ LET all == package_entries(
                            IF cgi_opened THEN <<append_file("cgi.txt", CgiFile)>>
                            ELSE <<>>,
                            append_package_conf(private, clock),
                            IF Exists(stripped)
                            THEN append_file(conf.app_name, files[stripped])
                            ELSE append_file(conf.app_name, BinaryFile("", 0)))
             IN files' =
                  IF fail = "create" THEN files
                  ELSE Put(files, eap,
                           [kind |-> "eap",
                            entries |-> SubSeq(all, 1, EntriesBefore(fail, cgi_opened)),
                            complete |-> fail = "none"])
          /\ package_dot_conf' = Some(package_conf_after(conf, private))
          /\ log' = LogDone("package", IF fail = "none" THEN "ok" ELSE "failed", None)
          /\ IF exit_code_after_package(fail = "none") = None
             THEN /\ pc' = next_step("package")
                  /\ idx' = idx + 1
                  /\ UNCHANGED exit_code
             ELSE /\ Exit(exit_code_after_package(fail = "none")[1])
                  /\ UNCHANGED idx
    /\ UNCHANGED aux
    /\ UNCHANGED <<package, verbose, show_version, req_targets, targets,
                   acap_target, dirs, cgi, cgi_changed, clock>>

----------------------------------------------------------------------------
(* The environment. *)

\* a second of wall-clock time passes; the clock is read where objcopy writes the
\* stripped binary (its mtime) and in package (SystemTime::now(), build.rs 196),
\* so time passing anywhere else is seen there
Tick ==
    /\ pc \in {"strip_wait", "package"}
    /\ clock' \in {c \in Clock : c > clock}
    /\ UNCHANGED aux
    /\ UNCHANGED <<package, verbose, show_version, req_targets, pc, targets, idx,
                   package_dot_conf, acap_target, dirs, files, cgi, cgi_changed,
                   log, exit_code>>

\* src/cgi.txt is created, deleted or made unreadable while the run goes on; it
\* is looked at in package only (build.rs 172-173)
CgiChange ==
    /\ pc = "package"
    /\ ~cgi_changed
    /\ cgi_changed' = TRUE
    /\ cgi' \in CgiStates \ {cgi}
    /\ UNCHANGED aux
    /\ UNCHANGED <<package, verbose, show_version, req_targets, pc, targets, idx,
                   package_dot_conf, acap_target, dirs, files, clock, log, exit_code>>

----------------------------------------------------------------------------

Next ==
    \/ InvokePackageDotConf
    \/ InvokeAcapTarget
    \/ ForTarget
    \/ MainExit
    \/ Spawn
    \/ Wait
    \/ Stage
    \/ Package
    \/ Tick
    \/ CgiChange

Spec == Init /\ [][Next]_vars

----------------------------------------------------------------------------
(* The package descriptor builder on its own: every raw configuration. *)

\* Option<String> fields: absent, or one supplied value
Opt(v) == {None, Some(v)}

\* every [package.metadata.acap] table, field by field absent or supplied
MetadataSpace ==
    {[app_name |-> a, display_name |-> d, menu_name |-> mn, vendor |-> v,
      vendor_homepage_url |-> u, launch_arguments |-> l,
      license_check_arguments |-> c, axis_application_id |-> x,
      start_mode |-> sm, targets |-> None] :
        a \in Opt("cam"), d \in Opt("Demo App"), mn \in Opt("Demo Menu"),
        v \in Opt("ACME"), u \in Opt("https://acme.example"), l \in Opt("--fast"),
        c \in Opt("--check"), x \in Opt("12345"),
        sm \in {None} \cup {Some(m) : m \in StartMode}}

\* at most this many pre-release identifiers, and build identifiers, in a version
MaxIdentifiers == 2

\* semver versions: numbers at and around the ends of i32, dot-separated
\* pre-release and build identifiers
VersionSpace ==
    {[major |-> mj, minor |-> mi, patch |-> pa, pre |-> pre, build |-> build] :
        mj \in {u64(1), u64(i32_MAX), two_pow_31},
        mi \in {u64(2), [hi |-> 1, lo |-> i32_MAX]},
        pa \in {u64(0), u64(3), two_pow_31},
        pre \in SeqsUpTo({"beta", "1"}, MaxIdentifiers),
        build \in SeqsUpTo({"42", "x"}, MaxIdentifiers)}

ConfPackages ==
    {[name |-> "demo",
      version |-> [major |-> u64(1), minor |-> u64(0), patch |-> u64(0),
                   pre |-> <<>>, build |-> <<>>],
      metadata |-> m] : m \in {None} \cup {Some(t) : t \in MetadataSpace}}
    \cup {[name |-> "demo", version |-> v, metadata |-> None] : v \in VersionSpace}

InitConf ==
    /\ package \in ConfPackages
    /\ verbose = 0
    /\ show_version = FALSE
    /\ req_targets = <<>>
    /\ pc = "start"
    /\ targets = <<>>
    /\ idx = 0
    /\ package_dot_conf = None
    /\ acap_target = None
    /\ dirs = {workspace_target}
    /\ files = [q \in {} |-> None]
    /\ cgi = "absent"
    /\ cgi_changed = FALSE
    /\ clock = 0
    /\ log = <<>>
    /\ exit_code = None
    /\ input = None
    /\ output = None
    /\ callers = <<>>
    /\ mutex = [holder |-> None, poisoned |-> FALSE]
    /\ create_dir_results = <<>>

NextConf == InvokePackageDotConf

SpecConf == InitConf /\ [][NextConf]_vars

----------------------------------------------------------------------------
(* Functions applied on their own: the manifest serializer. *)

\* at most this many names in the list of auxiliary files
MaxOtherFiles == 2

\* names of auxiliary files, as characters: two without a space, one with
FileNames == {<<"a">>, <<"d", ".", "e">>, <<"b", " ", "c">>}

\* resolved manifests: every optional field absent or present, every list of
\* auxiliary files
ManifestSpace ==
    {[PackageDotConf_from([name |-> "demo",
                           version |-> [major |-> u64(1), minor |-> u64(2),
                                        patch |-> u64(3), pre |-> <<>>, build |-> <<>>],
                           metadata |-> None])
        EXCEPT !.launch_arguments = l, !.app_micro_version = mv,
               !.license_check_arguments = c, !.settings_page_file = sf,
               !.settings_page_text = st, !.vendor_homepage_link = u,
               !.http_cgi_paths = h, !.post_install_script = ps,
               !.other_files = o] :
        l \in Opt("--fast"), mv \in Opt("3"), c \in Opt("--check"),
        sf \in Opt("settings.html"), st \in Opt("Settings"),
        u \in Opt("<a href=\"https://acme.example\">ACME</a>"),
        h \in Opt("cgi.txt"), ps \in Opt("postinstall.sh"),
        o \in SeqsUpTo(FileNames, MaxOtherFiles)}

\* strings to look a target up by: every name and triple, and strings that are
\* neither: other spellings and cases, the variant names, the objcopy commands,
\* parts of names and triples
LookupStrings ==
    {Target_name(t) : t \in Target} \cup {rust_target_triple(t) : t \in Target}
    \cup {docker_objcopy_command(t) : t \in Target} \cup Target
    \cup {"", "AARCH64", "MIPS", "aarch64 ", " mips", "arm", "armv7h", "armv7hf-",
          "mipsel", "armv5te", "aarch64-axis-linux", "x86_64-unknown-linux-gnu"}

\* Result::ok
Result_ok(r) == IF r.ok THEN Some(r.value) ELSE None

\* targets.rs 40-41, 58, 61: format!("`{}`", text). A string of this module
\* cannot hold the grave accent, an apostrophe stands for it
code_span(text) == "'" \o text \o "'"

\* targets.rs 52-64: the row of a system-on-chip
soc_row(soc) ==
    LET target == Result_ok(architecture(soc))
    IN <<SOC_display_name(soc),
         nat_to_string(SOC_year(soc)),
         IF is_some(target) THEN code_span(Target_name(target[1]))
         ELSE "(unsupported)",
         IF is_some(target) THEN code_span(rust_target_triple(target[1]))
         ELSE "(unsupported)">>

\* the wrong table: a system-on-chip without an architecture gets no row
soc_table_rows_supported(socs) ==
    LET supported == SelectSeq(socs, LAMBDA soc : architecture(soc).ok)
    IN [k \in DOMAIN supported |-> soc_row(supported[k])]

\* targets.rs 50-65: one row for each element
soc_table_rows(socs) == [k \in DOMAIN socs |-> soc_row(socs[k])]

\* targets.rs 13-25
Mode == {"Plain", "Table", "SocTable"}

\* targets.rs 27-69, Targets::invoke: the rows that are printed
Targets_invoke(mode) ==
    LET m == unwrap_or(mode, "Plain")
    IN CASE m = "Plain" -> [k \in DOMAIN Target_all |-> <<Target_name(Target_all[k])>>]
         [] m = "Table" ->
               [k \in DOMAIN Target_all |->
                   <<code_span(Target_name(Target_all[k])),
                     code_span(rust_target_triple(Target_all[k]))>>]
         [] m = "SocTable" -> soc_table_rows(sort_by_key(SOC_all))

\* the arguments a function is applied to, tagged with the function
FnInputs ==
    {[op |-> "to_string", conf |-> c] : c \in ManifestSpace}
    \cup {[op |-> "from_str", s |-> s] : s \in LookupStrings}
    \cup {[op |-> "architecture", soc |-> soc] : soc \in SOC}
    \cup {[op |-> "targets", mode |-> m] : m \in {None} \cup {Some(md) : md \in Mode}}

InitFn ==
    /\ package = [name |-> "demo",
                  version |-> [major |-> u64(1), minor |-> u64(0), patch |-> u64(0),
                               pre |-> <<>>, build |-> <<>>],
                  metadata |-> None]
    /\ verbose = 0
    /\ show_version = FALSE
    /\ req_targets = <<>>
    /\ pc = "fn"
    /\ targets = <<>>
    /\ idx = 0
    /\ package_dot_conf = None
    /\ acap_target = None
    /\ dirs = {workspace_target}
    /\ files = [q \in {} |-> None]
    /\ cgi = "absent"
    /\ cgi_changed = FALSE
    /\ clock = 0
    /\ log = <<>>
    /\ exit_code = None
    /\ input \in {Some(i) : i \in FnInputs}
    /\ output = None
    /\ callers = <<>>
    /\ mutex = [holder |-> None, poisoned |-> FALSE]
    /\ create_dir_results = <<>>

\* the variables of a build run
run == <<package, verbose, show_version, req_targets, pc, targets, idx,
         package_dot_conf, acap_target, dirs, files, cgi, cgi_changed, clock,
         log, exit_code>>

\* package_dot_conf.rs 213-217: PackageDotConf::to_string(), or its panic
Serialize ==
    /\ pc = "fn"
    /\ output = None
    /\ input[1].op = "to_string"
    /\ output' = Some(IF to_string_panics(input[1].conf)
                      THEN [panicked |-> TRUE]
                      ELSE [panicked |-> FALSE,
                            lines |-> to_lines(input[1].conf),
                            text |-> to_string(input[1].conf)])
    /\ UNCHANGED <<run, input, threads>>

\* target.rs 135-145: s.parse::<Target>()
FromStr ==
    /\ pc = "fn"
    /\ output = None
    /\ input[1].op = "from_str"
    /\ output' = Some(from_str(input[1].s))
    /\ UNCHANGED <<run, input, threads>>

\* target.rs 271-287: soc.architecture()
Architecture ==
    /\ pc = "fn"
    /\ output = None
    /\ input[1].op = "architecture"
    /\ output' = Some(architecture(input[1].soc))
    /\ UNCHANGED <<run, input, threads>>

\* targets.rs 27-69: cargo acap targets [mode]
TargetsInvoke ==
    /\ pc = "fn"
    /\ output = None
    /\ input[1].op = "targets"
    /\ output' = Some(Targets_invoke(input[1].mode))
    /\ UNCHANGED <<run, input, threads>>

NextFn ==
    \/ Serialize
    \/ FromStr
    \/ Architecture
    \/ TargetsInvoke

SpecFn == InitFn /\ [][NextFn]_vars

----------------------------------------------------------------------------
(* Invocation::acap_target (mod.rs 145-165) called by several threads. *)

\* this many threads call acap_target
MaxCallers == 3
\* each of them at most this many times
MaxAccesses == 2

Callers == 1..MaxCallers

InitThreads ==
    /\ package = [name |-> "demo",
                  version |-> [major |-> u64(1), minor |-> u64(0), patch |-> u64(0),
                               pre |-> <<>>, build |-> <<>>],
                  metadata |-> None]
    /\ verbose = 0
    /\ show_version = FALSE
    /\ req_targets = <<>>
    /\ pc = "threads"
    /\ targets = <<>>
    /\ idx = 0
    /\ package_dot_conf = None
    /\ acap_target = None
    /\ dirs \in {{workspace_target}, {workspace_target, acap_target_path}}
    /\ files = [q \in {} |-> None]
    /\ cgi = "absent"
    /\ cgi_changed = FALSE
    /\ clock = 0
    /\ log = <<>>
    /\ exit_code = None
    /\ input = None
    /\ output = None
    /\ callers = [c \in Callers |-> [pc |-> "idle", returned |-> <<>>]]
    /\ mutex = [holder |-> None, poisoned |-> FALSE]
    /\ create_dir_results = <<>>

\* the variables that a call of acap_target leaves alone
not_acap_target == <<package, verbose, show_version, req_targets, pc, targets, idx,
                     package_dot_conf, files, cgi, cgi_changed, clock, log, exit_code,
                     input, output>>

\* the wrong lock: one that never makes a caller wait
lockable_always(m) == TRUE

\* Mutex::lock (mod.rs 146) returns when no thread holds the mutex
lockable(m) == m.holder = None

\* MutexGuard::drop, by return or by unwinding: a panicking holder poisons the mutex
unlocked(m, panicking) == [holder |-> None, poisoned |-> m.poisoned \/ panicking]

\* mod.rs 145: a thread calls acap_target, as build.rs 23 and mod.rs 200 do
Call(c) ==
    /\ pc = "threads"
    /\ callers[c].pc = "idle"
    /\ Len(callers[c].returned) < MaxAccesses
    /\ callers' = [callers EXCEPT ![c].pc = "lock"]
    /\ UNCHANGED <<not_acap_target, acap_target, dirs, mutex, create_dir_results>>

\* mod.rs 146: self.acap_target.lock().unwrap(), which panics on a poisoned mutex
Lock(c) ==
    /\ pc = "threads"
    /\ callers[c].pc = "lock"
    /\ lockable(mutex)
    /\ IF mutex.poisoned
       THEN /\ callers' = [callers EXCEPT ![c].pc = "panicked"]
            /\ UNCHANGED mutex
       ELSE /\ callers' = [callers EXCEPT ![c].pc = "check"]
            /\ mutex' = [mutex EXCEPT !.holder = Some(c)]
    /\ UNCHANGED <<not_acap_target, acap_target, dirs, create_dir_results>>

\* mod.rs 148-150: the cached path is returned
Check(c) ==
    /\ pc = "threads"
    /\ callers[c].pc = "check"
    /\ IF acap_target # None
       THEN /\ callers' = [callers EXCEPT ![c].pc = "idle",
                                          ![c].returned = Append(@, acap_target[1])]
            /\ mutex' = unlocked(mutex, FALSE)
       ELSE /\ callers' = [callers EXCEPT ![c].pc = "create"]
            /\ UNCHANGED mutex
    /\ UNCHANGED <<not_acap_target, acap_target, dirs, create_dir_results>>

\* mod.rs 152-161: create_dir; AlreadyExists is Ok, any other error panics
CreateDir(c) ==
    /\ pc = "threads"
    /\ callers[c].pc = "create"
    /\ \E result \in (IF acap_target_path \in dirs THEN {"already_exists", "error"}
                       ELSE {"created", "error"}) :
          /\ create_dir_results' = Append(create_dir_results, result)
          /\ dirs' = IF result = "created" THEN dirs \cup {acap_target_path} ELSE dirs
          /\ IF result = "error"
             THEN /\ callers' = [callers EXCEPT ![c].pc = "panicked"]
                  /\ mutex' = unlocked(mutex, TRUE)
             ELSE /\ callers' = [callers EXCEPT ![c].pc = "cache"]
                  /\ UNCHANGED mutex
    /\ UNCHANGED <<not_acap_target, acap_target>>

\* mod.rs 163-164: the path is cached and returned
Cache(c) ==
    /\ pc = "threads"
    /\ callers[c].pc = "cache"
    /\ acap_target' = Some(acap_target_path)
    /\ callers' = [callers EXCEPT ![c].pc = "idle",
                                   ![c].returned = Append(@, acap_target_path)]
    /\ mutex' = unlocked(mutex, FALSE)
    /\ UNCHANGED <<not_acap_target, dirs, create_dir_results>>

NextThreads ==
    \E c \in Callers :
        \/ Call(c)
        \/ Lock(c)
        \/ Check(c)
        \/ CreateDir(c)
        \/ Cache(c)

SpecThreads == InitThreads /\ [][NextThreads]_vars

----------------------------------------------------------------------------
(* Properties of a build run. *)

PipelineSteps == <<"compile", "stage", "strip", "package">>

IsPipelineStep(step) == \E n \in DOMAIN PipelineSteps : PipelineSteps[n] = step

StepNo(step) == CHOOSE n \in DOMAIN PipelineSteps : PipelineSteps[n] = step

\* the .eap path of target t in this run
EapPath(t) ==
    IF PackageDotConf_panics(package) THEN ""
    ELSE artifact_path(PackageDotConf_from(package), t, ".eap")

\* the process has just returned from a successful package of target targets[idx - 1]
JustPackaged ==
    /\ pc = "for_target"
    /\ log # <<>>
    /\ log[Len(log)].step = "package"
    /\ log[Len(log)].st = "ok"

\* C1: every step of a target that was started is preceded, directly and in the
\* order compile, stage, strip, package, by the earlier steps of that same target,
\* each of them finished successfully; nothing else of that target was run before it.
C1_StepOrder ==
    \A k \in DOMAIN log :
        IsPipelineStep(log[k].step) =>
            LET n == StepNo(log[k].step) IN
            /\ k > n - 1
            /\ \A m \in 1..(n - 1) :
                  /\ log[k - (n - m)].i = log[k].i
                  /\ log[k - (n - m)].step = PipelineSteps[m]
                  /\ log[k - (n - m)].st = "ok"
            /\ Cardinality({j \in 1..(k - 1) : log[j].i = log[k].i}) = n - 1

\* C1 witness: some target went through all four steps
C1_Witness ==
    \E k \in DOMAIN log :
        /\ log[k].step = "package" /\ log[k].st = "ok"
        /\ k >= 4 /\ log[k - 3].step = "compile" /\ log[k - 3].i = log[k].i

\* C2: the log runs through the targets in list order, a target is begun only
\* after the package step of the one before it succeeded, and a failed step is
\* the last thing the run ever started.
C2_FailFast ==
    \A k \in DOMAIN log :
        /\ log[k].st = "failed" => (k = Len(log) /\ pc = "exited" /\ exit_code # Some(0))
        /\ log[k].i >= 1 => (log[k].i <= Len(targets) /\ log[k].target = targets[log[k].i])
        /\ k > 1 =>
              /\ log[k - 1].i <= log[k].i
              /\ log[k].i <= log[k - 1].i + 1
              /\ (log[k - 1].i >= 1 /\ log[k].i = log[k - 1].i + 1) =>
                    (log[k - 1].step = "package" /\ log[k - 1].st = "ok")

\* C2 witness: the first of several targets failed and the run is over
C2_Witness ==
    /\ Len(targets) >= 2
    /\ pc = "exited"
    /\ log # <<>>
    /\ log[Len(log)].st = "failed"
    /\ log[Len(log)].i = 1
    /\ log[Len(log)].step = "strip"

\* every step of every requested target succeeded
AllStepsSucceeded ==
    \A i \in 1..Len(targets_to_build) :
        \A n \in DOMAIN PipelineSteps :
            \E k \in DOMAIN log :
                /\ log[k].i = i
                /\ log[k].target = targets_to_build[i]
                /\ log[k].step = PipelineSteps[n]
                /\ log[k].st = "ok"

\* log[k] is a child process that exited with a code other than 0
ExitedUnsuccessfully(k) == log[k].st = "failed" /\ log[k].code # None

\* C3: when the process has ended, its exit code is the exit code of the first
\* child that exited unsuccessfully, if there is one, and it is 0 exactly when
\* every step of every requested target succeeded.
C3_ExitCode ==
    pc = "exited" =>
        /\ \A k \in DOMAIN log :
              (ExitedUnsuccessfully(k) /\ \A j \in 1..(k - 1) : ~ExitedUnsuccessfully(j))
                  => exit_code = log[k].code
        /\ (exit_code = Some(0)) <=> AllStepsSucceeded

\* C3 witness: a strip child exited with code 2 and so did the process
C3_Witness ==
    /\ pc = "exited"
    /\ exit_code = Some(2)
    /\ \E k \in DOMAIN log : log[k].step = "strip" /\ log[k].code = Some(2)

\* C4: a file exists at the .eap path of a target only if it is a finished archive
\* and the package step of that target succeeded.
C4_ArchiveOnlyOnSuccess ==
    \A t \in Target :
        Exists(EapPath(t)) =>
            /\ files[EapPath(t)].complete
            /\ \E k \in DOMAIN log :
                  log[k].target = t /\ log[k].step = "package" /\ log[k].st = "ok"

\* the paths of the entries of an archive, in order
EntryPaths(archive) == [n \in DOMAIN archive.entries |-> archive.entries[n].header.path]

\* the content of two archives is the same, entry by entry: same manifest text,
\* same binary, same auxiliary file
SameContent(a, b) ==
    /\ EntryPaths(a) = EntryPaths(b)
    /\ \A n \in DOMAIN a.entries : a.entries[n].content = b.entries[n].content

\* C5: when a package step writes an archive over a finished archive that was
\* assembled from the same manifest, binary and auxiliary file, the new archive
\* is equal to the old one, header fields included.
C5_Reproducible ==
    [][(/\ pc = "package"
        /\ pc' = "for_target"
        /\ Exists(EapPath(CurrentTarget))
        /\ files[EapPath(CurrentTarget)].complete
        /\ SameContent(files[EapPath(CurrentTarget)], files'[EapPath(CurrentTarget)]))
          => files'[EapPath(CurrentTarget)] = files[EapPath(CurrentTarget)]]_vars

\* the finished archives on disk
Archives == {files[q] : q \in {r \in DOMAIN files : files[r].kind = "eap" /\ files[r].complete}}

\* C6: every entry of every finished archive has uid 0, gid 0, mode 0644, the
\* regular-file type and a size equal to the length of its content.
C6_EntryMetadata ==
    \A a \in Archives :
        \A n \in DOMAIN a.entries :
            /\ a.entries[n].header.uid = 0
            /\ a.entries[n].header.gid = 0
            /\ a.entries[n].header.mode = 420
            /\ a.entries[n].header.entry_type = "Regular"
            /\ a.entries[n].header.size = Len(a.entries[n].content)

\* C7: a finished archive holds package.conf and the executable, named after the
\* application, in that order, with cgi.txt in front of them exactly when
\* src/cgi.txt existed when the archive was assembled.
C7_Entries ==
    LET app_name == PackageDotConf_from(package).app_name
        two == <<"package.conf", app_name>>
        three == <<"cgi.txt", "package.conf", app_name>>
    IN /\ \A a \in Archives : EntryPaths(a) \in {two, three}
       /\ JustPackaged =>
            /\ Exists(EapPath(targets[idx - 1]))
            /\ files[EapPath(targets[idx - 1])].complete
            /\ EntryPaths(files[EapPath(targets[idx - 1])])
                  = IF cgi = "present" THEN three ELSE two

\* C7 witness: an archive with the three entries was just written
C7_Witness ==
    /\ JustPackaged
    /\ cgi = "present"
    /\ Len(files[EapPath(targets[idx - 1])].entries) = 3

\* the manifest that was serialized into an archive
PackagedManifest(archive) ==
    LET n == CHOOSE m \in DOMAIN archive.entries :
                 archive.entries[m].header.path = "package.conf"
                 /\ archive.entries[m].manifest # None
    IN archive.entries[n].manifest[1]

\* C8: the manifest of the run is, at every moment after it was resolved, the one
\* resolved at the start, without a CGI path; the manifest packaged for a target
\* is that manifest with the CGI path set exactly when src/cgi.txt was found for
\* this target.
C8_ManifestNotMutated ==
    /\ package_dot_conf # None =>
          /\ package_dot_conf[1] = PackageDotConf_from(package)
          /\ package_dot_conf[1].http_cgi_paths = None
    /\ JustPackaged =>
          PackagedManifest(files[EapPath(targets[idx - 1])])
              = [PackageDotConf_from(package) EXCEPT
                    !.http_cgi_paths = IF cgi = "present" THEN Some("cgi.txt") ELSE None]

\* C8 witness: a target was packaged without a CGI path after an earlier target
\* of the run was packaged with one
C8_Witness ==
    /\ JustPackaged
    /\ idx = 3
    /\ cgi = "absent"
    /\ targets[1] # targets[2]
    /\ PackagedManifest(files[EapPath(targets[1])]).http_cgi_paths = Some("cgi.txt")
    /\ PackagedManifest(files[EapPath(targets[2])]).http_cgi_paths = None

----------------------------------------------------------------------------
(* Properties of the package descriptor builder. *)

\* the raw configuration the manifest was resolved from
Raw == unwrap_or(package.metadata, CargoAcapMetadata_default)

\* C9: the resolved license page is Axis when the licensing id is present, with
\* or without license-check arguments, Custom when only the license-check
\* arguments are present, None when both are absent; the builder resolves every
\* one of the four combinations.
C9_LicensePage ==
    /\ pc = "start" => ENABLED InvokePackageDotConf
    /\ package_dot_conf # None =>
          LET id == Raw.axis_application_id # None
              args == Raw.license_check_arguments # None
              page == package_dot_conf[1].license_page
          IN /\ (id /\ args) => page = "Axis"
             /\ (id /\ ~args) => page = "Axis"
             /\ (~id /\ args) => page = "Custom"
             /\ (~id /\ ~args) => page = "None"

\* C9 witness: both fields are present and the manifest was resolved
C9_Witness ==
    /\ package_dot_conf # None
    /\ Raw.axis_application_id # None
    /\ Raw.license_check_arguments # None
    /\ package_dot_conf[1].license_page = "Axis"

\* C10: a supplied field is kept; an absent application name or display name is
\* the package name, an absent menu name the resolved display name, an absent
\* vendor the resolved display name followed by " authors", an absent start mode
\* Respawn.
C10_Defaults ==
    package_dot_conf # None =>
        LET conf == package_dot_conf[1]
            given(field) == field # None
        IN /\ conf.app_name = IF given(Raw.app_name) THEN Raw.app_name[1] ELSE package.name
           /\ conf.display_name
                 = IF given(Raw.display_name) THEN Raw.display_name[1] ELSE package.name
           /\ conf.menu_name
                 = IF given(Raw.menu_name) THEN Raw.menu_name[1] ELSE conf.display_name
           /\ conf.vendor
                 = IF given(Raw.vendor) THEN Raw.vendor[1]
                   ELSE conf.display_name \o " authors"
           /\ conf.start_mode
                 = IF given(Raw.start_mode) THEN Raw.start_mode[1] ELSE "Respawn"
           /\ (Raw = CargoAcapMetadata_default /\ package.name = "demo") =>
                 /\ conf.display_name = "demo"
                 /\ conf.menu_name = "demo"
                 /\ conf.vendor = "demo authors"
                 /\ conf.start_mode = "Respawn"
                 /\ conf.license_page = "None"
           /\ Raw = [CargoAcapMetadata_default EXCEPT !.display_name = Some("Demo App")] =>
                 /\ conf.menu_name = "Demo App"
                 /\ conf.vendor = "Demo App authors"

\* C10 witness: only the display name was supplied
C10_Witness ==
    /\ package_dot_conf # None
    /\ Raw = [CargoAcapMetadata_default EXCEPT !.display_name = Some("Demo App")]
    /\ package_dot_conf[1].vendor = "Demo App authors"
    /\ package_dot_conf[1].app_name = "demo"

----------------------------------------------------------------------------
(* Properties of the version fields of the manifest. *)

\* the text of a version after "<major>.<minor>."
VersionTextAfterMinor(v) ==
    u64_to_string(v.patch)
        \o (IF v.pre = <<>> THEN "" ELSE "-" \o join_dot(v.pre))
        \o (IF v.build = <<>> THEN "" ELSE "+" \o join_dot(v.build))

\* C11: the micro version of a resolved manifest is the decimal patch number, then
\* "-" and the pre-release text if there is a pre-release, then "+" and the build
\* metadata text if there is build metadata, also when either has several
\* dot-separated identifiers: it is the text of the version after "<major>.<minor>.".
C11_MicroVersion ==
    package_dot_conf # None =>
        LET v == package.version
        IN /\ package_dot_conf[1].app_micro_version = Some(VersionTextAfterMinor(v))
           /\ package_version(package)
                 = u64_to_string(v.major) \o "." \o u64_to_string(v.minor) \o "."
                       \o VersionTextAfterMinor(v)

VersionOutOfRange == package.version.major.hi > 0 \/ package.version.minor.hi > 0

\* C12: a major or minor version number that does not fit an i32 ends the run with
\* a failure when the manifest is resolved: no subprocess was spawned, the output
\* directory was not created, no target was started. The numbers of a resolved
\* manifest are the numbers of the version, unchanged.
C12_VersionRange ==
    /\ package_dot_conf # None =>
          /\ u64(package_dot_conf[1].app_major_version) = package.version.major
          /\ u64(package_dot_conf[1].app_minor_version) = package.version.minor
    /\ VersionOutOfRange =>
          /\ pc \in {"start", "exited"}
          /\ pc = "start" => ENABLED InvokePackageDotConf
          /\ pc = "exited" => exit_code # None /\ exit_code # Some(0)
          /\ package_dot_conf = None
          /\ log = <<>>
          /\ targets = <<>>
          /\ acap_target = None
          /\ acap_target_path \notin dirs
          /\ files = [q \in {} |-> None]

\* C12 witness: the run on a version with major number 2^31 has ended
C12_Witness ==
    /\ package.version.major = two_pow_31
    /\ pc = "exited"
    /\ exit_code = Some(panic_exit_code)
    /\ log = <<>>

----------------------------------------------------------------------------
(* Properties of the manifest serializer. *)

Serialized == output # None /\ input[1].op = "to_string"

\* the keys of the fields that are not Option
RequiredKeys ==
    {"APPNAME", "PACKAGENAME", "MENUNAME", "APPID", "VENDOR", "APPMAJORVERSION",
     "APPMINORVERSION", "OTHERFILES", "LICENSEPAGE", "REQEMBDEVVERSION", "APPUSR",
     "APPGRP", "STARTMODE"}

\* the Option fields of a manifest, by key
OptionalFields(conf) ==
    [APPOPTS |-> conf.launch_arguments,
     APPMICROVERSION |-> conf.app_micro_version,
     LICENSE_CHECK_ARGS |-> conf.license_check_arguments,
     SETTINGSPAGEFILE |-> conf.settings_page_file,
     SETTINGSPAGETEXT |-> conf.settings_page_text,
     VENDORHOMEPAGELINK |-> conf.vendor_homepage_link,
     HTTPCGIPATHS |-> conf.http_cgi_paths,
     POSTINSTALLSCRIPT |-> conf.post_install_script]

\* the lines of key k
LinesOf(lines, k) == {i \in DOMAIN lines : lines[i].key = k}

RECURSIVE SpaceSeparated(_)
SpaceSeparated(names) ==
    IF names = <<>> THEN ""
    ELSE SpaceSeparated(SubSeq(names, 1, Len(names) - 1))
            \o (IF Len(names) > 1 THEN " " ELSE "")
            \o chars_to_string(names[Len(names)])

\* C14: serializing a manifest whose list of auxiliary files has a name with a
\* space in it fails and yields no text; a list without such a name is
\* serialized as its names separated by single spaces.
C14_OtherFiles ==
    Serialized =>
        LET names == input[1].conf.other_files
        IN IF \E i \in DOMAIN names : \E j \in DOMAIN names[i] : names[i][j] = " "
           THEN output[1] = [panicked |-> TRUE]
           ELSE /\ ~output[1].panicked
                /\ \A i \in LinesOf(output[1].lines, "OTHERFILES") :
                      output[1].lines[i].value = SpaceSeparated(names)
                /\ LinesOf(output[1].lines, "OTHERFILES") # {}

\* C14 witness: the second of two names has a space, and serialization failed
C14_Witness ==
    /\ Serialized
    /\ input[1].conf.other_files = <<<<"a">>, <<"b", " ", "c">>>>
    /\ output[1].panicked

----------------------------------------------------------------------------
(* Properties of the target catalog. *)

LookedUp == output # None /\ input[1].op = "from_str"

\* C15: looking up the name or the triple of a supported target returns that
\* target; no two targets share a name or a triple and no name is a triple;
\* looking up any other string fails with NoSuchTargetError for that string.
C15_Lookup ==
    /\ \A t, u \in Target :
          /\ t # u => /\ Target_name(t) # Target_name(u)
                      /\ rust_target_triple(t) # rust_target_triple(u)
          /\ Target_name(t) # rust_target_triple(u)
    /\ LookedUp =>
          LET s == input[1].s
              named == {t \in Target : Target_name(t) = s \/ rust_target_triple(t) = s}
          IN /\ \A t \in named : output[1] = [ok |-> TRUE, value |-> t]
             /\ named = {} => output[1] = [ok |-> FALSE, err |-> [NoSuchTargetError |-> s]]

\* C15 witness: the triple of armv7hf was looked up and armv7hf found
C15_Witness ==
    /\ LookedUp
    /\ input[1].s = "armv7-axis-linux-gnueabihf"
    /\ output[1] = [ok |-> TRUE, value |-> "Armv7Hf"]

\* the systems-on-chip that no supported target runs on
Unsupported == {"Artpec1", "Artpec2", "Artpec3"}

\* C19: the architecture of ARTPEC-1, -2 or -3 is an error value, that of every
\* other system-on-chip is a supported target, and asking never ends the
\* process: the call returns. The table of systems-on-chip has one row for each
\* of them, with "(unsupported)" in the target columns of exactly those three.
C19_Architecture ==
    /\ (pc = "fn" /\ output = None /\ input[1].op = "architecture")
          => ENABLED Architecture
    /\ (output # None /\ input[1].op = "architecture") =>
          IF input[1].soc \in Unsupported
          THEN ~output[1].ok /\ DOMAIN output[1] = {"ok", "err"}
          ELSE output[1].ok /\ \E k \in DOMAIN Target_all : Target_all[k] = output[1].value
    /\ (output # None /\ input[1] = [op |-> "targets", mode |-> Some("SocTable")]) =>
          LET rows == output[1]
          IN /\ Len(rows) = Cardinality(SOC)
             /\ \A soc \in SOC :
                   \E k \in DOMAIN rows :
                      /\ rows[k][1] = SOC_display_name(soc)
                      /\ \A j \in DOMAIN rows : rows[j][1] = rows[k][1] => j = k
                      /\ rows[k][3] = "(unsupported)" <=> soc \in Unsupported
                      /\ rows[k][4] = "(unsupported)" <=> soc \in Unsupported
                      /\ soc \notin Unsupported =>
                            \E t \in Target : rows[k][3] = code_span(Target_name(t))

\* C19 witness: the table was listed, its first row is that of ARTPEC-1
C19_Witness ==
    /\ output # None
    /\ input[1] = [op |-> "targets", mode |-> Some("SocTable")]
    /\ Len(output[1]) = Cardinality(SOC)
    /\ output[1][1] = <<"Axis ARTPEC-1", "1999", "(unsupported)", "(unsupported)">>

----------------------------------------------------------------------------
(* Properties of the options of a build run. *)

\* a compile, stage, strip or package step of the run has failed
PipelineStepFailed ==
    \E i \in DOMAIN log : IsPipelineStep(log[i].step) /\ log[i].st = "failed"

\* C16: verbosity does not change control flow. A run without --version, whose
\* manifest was resolved and whose output directory was created, ends the way
\* the outcomes of its compile, stage, strip and package steps say, at every
\* verbosity: it ends unsuccessfully only if one of these steps failed.
C16_VerbosityControlFlow ==
    (~show_version /\ acap_target # None /\ pc = "exited" /\ exit_code # Some(0))
        => PipelineStepFailed

\* the entries of the log that start the pipeline of a target
Compiles == SelectSeq(log, LAMBDA e : e.step = "compile")

\* the targets a run is to build, by its command line
NamedOrAll == IF req_targets = <<>> THEN Target_all ELSE req_targets

C18_ConfiguredTargets ==
    (Raw.targets # None /\ req_targets = <<>> /\ acap_target # None) =>
        targets = Raw.targets[1]

----------------------------------------------------------------------------
(* Properties of the output directory. *)

\* the callers that are between lock() and the drop of the guard
InAcapTarget == {c \in DOMAIN callers : callers[c].pc \in {"check", "create", "cache"}}

Panicked == {c \in DOMAIN callers : callers[c].pc = "panicked"}

\* C20: whatever the number of callers of acap_target and their interleaving,
\* check, create and cache run under the lock, one caller at a time, and
\* create_dir is called at most once; "already exists" is a success like
\* "created"; any other error panics and leaves no path cached; every call
\* that returns, returns the same path target/acap.
C20_OutputDirectory ==
    pc = "threads" =>
        /\ Cardinality(InAcapTarget) <= 1
        /\ InAcapTarget = {} <=> mutex.holder = None
        /\ Len(create_dir_results) <= 1
        /\ \A c \in DOMAIN callers : \A k \in DOMAIN callers[c].returned :
              /\ callers[c].returned[k] = acap_target_path
              /\ acap_target = Some(acap_target_path)
              /\ acap_target_path \in dirs
        /\ acap_target # None => /\ Len(create_dir_results) = 1
                                 /\ create_dir_results[1] \in {"created", "already_exists"}
        /\ create_dir_results = <<"error">> =>
              /\ acap_target = None
              /\ Panicked # {}
              /\ InAcapTarget = {}
        /\ (create_dir_results # <<>> /\ create_dir_results # <<"error">>) =>
              /\ Panicked = {}
              /\ InAcapTarget = {} => acap_target = Some(acap_target_path)

\* C20 witness: the directory existed already, and every caller has got the path
\* as often as it asked
C20_Witness ==
    /\ pc = "threads"
    /\ create_dir_results = <<"already_exists">>
    /\ \A c \in DOMAIN callers : Len(callers[c].returned) = MaxAccesses

----------------------------------------------------------------------------
(* Properties of the auxiliary file src/cgi.txt. *)

\* the package step of a target has just ended; src/cgi.txt is still in the
\* state in which the step found it
PackageEnded ==
    /\ log # <<>>
    /\ log[Len(log)].step = "package"
    /\ pc \in {"for_target", "exited"}

\* a package step that goes through
PackageSucceeds == Package /\ pc' = "for_target"

\* C21: when src/cgi.txt is not found, packaging can go on, and the archive it
\* finishes has no cgi.txt entry and a manifest without the CGI path; when
\* src/cgi.txt cannot be opened for another reason, or is opened and cannot be
\* read, the package step fails and the run ends with a failure; an archive that
\* was finished lacks the cgi.txt entry only if the file was not found.
C21_CgiProbe ==
    /\ (pc = "package" /\ cgi = "absent"
           /\ Exists(stripped_executable_path(CurrentTarget)))
          => ENABLED PackageSucceeds
    /\ PackageEnded =>
          LET last == log[Len(log)]
              eap == EapPath(last.target)
          IN
          /\ cgi = "denied" =>
                /\ last.st = "failed"
                /\ pc = "exited"
                /\ exit_code # None /\ exit_code # Some(0)
          /\ last.st = "ok" =>
                /\ Exists(eap) /\ files[eap].complete
                /\ (\E n \in DOMAIN files[eap].entries :
                       files[eap].entries[n].header.path = "cgi.txt")
                      <=> cgi = "present"
                /\ PackagedManifest(files[eap]).http_cgi_paths
                      = IF cgi = "absent" THEN None ELSE Some("cgi.txt")

\* C21 witness: src/cgi.txt was not found and the archive was finished with two
\* entries
C21_Witness ==
    /\ PackageEnded
    /\ cgi = "absent"
    /\ log[Len(log)].st = "ok"
    /\ Len(files[EapPath(log[Len(log)].target)].entries) = 2

----------------------------------------------------------------------------
(* Subprocesses of a run. *)

CompileAndStrip == {"compile", "strip"}

\* the children of the run that have been spawned and have not exited
Alive == {n \in DOMAIN log : log[n].st = "running"}

\* at most one child is alive, it is the one spawned last, and the run is
\* blocked in its wait()
NoOverlap ==
    /\ Cardinality(Alive) <= 1
    /\ \A n \in Alive : n = Len(log) /\ pc = log[n].step \o "_wait"

\* while a child is alive a step of the run is the end of that child; every
\* other step is one of the environment and leaves the run where it is
WaitedOn ==
    Alive # {} =>
       \/ /\ Len(log') = Len(log)
          /\ log'[Len(log)].st # "running"
          /\ \A n \in 1..(Len(log) - 1) : log'[n] = log[n]
       \/ UNCHANGED <<pc, log, files, dirs, idx, targets, exit_code>>

\* no two children of the same kind for one entry of the list of targets
OncePerEntry ==
    \A m, n \in DOMAIN log :
       (/\ log[m].step \in CompileAndStrip
        /\ log[m].step = log[n].step
        /\ log[m].i = log[n].i) => m = n

\* no two children of the same kind for one target
OncePerTarget ==
    \A m, n \in DOMAIN log :
       (/\ log[m].step \in CompileAndStrip
        /\ log[m].step = log[n].step
        /\ log[m].target = log[n].target) => m = n

\* C22 as stated: in one run the compile child and the strip child of a target
\* are spawned at most once, a spawned child is waited for before the run does
\* anything else, and no two children are alive at the same time.
C22_OncePerTarget == [][OncePerTarget' /\ NoOverlap' /\ WaitedOn]_vars

\* C22 amended: in one run the compile child and the strip child are spawned at
\* most once for each entry of the list of targets (a target named twice on the
\* command line is two entries and is compiled and stripped twice), a spawned
\* child is waited for before the run does anything else, and no two children
\* are alive at the same time.
C22_OncePerEntry == [][OncePerEntry' /\ NoOverlap' /\ WaitedOn]_vars

\* C22 witness: the strip child of the second entry is alive after the first
\* entry, which names the same target, was compiled, stripped and packaged
C22_Witness ==
    /\ pc = "strip_wait"
    /\ idx = 2
    /\ targets[1] = targets[2]
    /\ Alive = {Len(log)}
    /\ \E n \in DOMAIN log : log[n].i = 1 /\ log[n].step = "package" /\ log[n].st = "ok"

----------------------------------------------------------------------------
(* The files of the targets of a run. *)

\* the files the pipeline writes for target t: the compiled binary, its
\* stripped copy, the .elf and the .eap
ArtifactPaths(t) ==
    <<built_executable_path(t),
      stripped_executable_path(t),
      artifact_path(package_dot_conf[1], t, ".elf"),
      artifact_path(package_dot_conf[1], t, ".eap")>>

ArtifactPathSet(t) == {ArtifactPaths(t)[k] : k \in 1..4}

\* the four paths of a target differ from each other and from the paths of
\* every other target
PathsDistinct ==
    package_dot_conf # None =>
       \A t, u \in Target :
          /\ Cardinality(ArtifactPathSet(t)) = 4
          /\ t # u => ArtifactPathSet(t) \cap ArtifactPathSet(u) = {}

\* the files of target t in the file system fs are the ones made for its
\* triple: the compiled binary, the stripped copy, the .elf, and the executable
\* inside a finished archive
OwnBinary(fs, t) ==
    LET paths == ArtifactPaths(t)
        with_symbols == "elf+symbols:" \o rust_target_triple(t)
        stripped == "elf:" \o rust_target_triple(t)
    IN /\ paths[1] \in DOMAIN fs => fs[paths[1]].data = with_symbols
       /\ paths[2] \in DOMAIN fs => fs[paths[2]].data = stripped
       /\ paths[3] \in DOMAIN fs => fs[paths[3]].data = with_symbols
       /\ (paths[4] \in DOMAIN fs /\ fs[paths[4]].complete) =>
             LET entries == fs[paths[4]].entries
                 exe == entries[Len(entries)]
             IN /\ exe.header.path = package_dot_conf[1].app_name
                /\ exe.content = stripped

\* the files a step creates or changes
Written ==
    {path \in DOMAIN files' : path \notin DOMAIN files \/ files'[path] # files[path]}

\* a step of a target removes no file and writes files of that target only
NoOverwrite ==
    /\ DOMAIN files \subseteq DOMAIN files'
    /\ Written \subseteq ArtifactPathSet(CurrentTarget)

\* C23: for two distinct targets the path of the compiled binary, of the
\* stripped binary, of the .elf and of the .eap are pairwise distinct; the
\* archive of a target holds the binary compiled and stripped for the triple of
\* that target; and the steps of a target leave the artifacts of every other
\* target as they are.
\* (the paths are functions of the package and of the manifest, which are
\* fixed once the manifest is built; a step that writes files belongs to the
\* target of the current pass, and what it leaves is looked at after the step)
C23_NoInterference ==
    [][/\ package_dot_conf' # package_dot_conf => PathsDistinct'
       /\ files' # files => OwnBinary(files', CurrentTarget) /\ NoOverwrite]_vars

\* C23 witness: the second target, distinct from the first, has been packaged
\* while the four artifacts of the first are on disk
C23_Witness ==
    /\ PackageEnded
    /\ log[Len(log)].st = "ok"
    /\ log[Len(log)].i = 2
    /\ targets[1] # targets[2]
    /\ \A k \in 1..4 : Exists(ArtifactPaths(targets[1])[k])
    /\ Exists(ArtifactPaths(targets[2])[4])
    /\ files[ArtifactPaths(targets[2])[4]].complete

====
